---- MODULE Spec2Model ----
(***************************************************************************)
(* The confidence-contour engine of lenstools/contours.py (ContourPlot):   *)
(* axis registry and calibration, grid reduction (marginalize, slice) and  *)
(* the likelihood-threshold search (getLikelihoodValues).                  *)
(*                                                                         *)
(* Floating-point numbers are modelled as exact rationals [n, d] in lowest *)
(* terms, with NaN = 0/0; numpy arrays as [shape, data], data a function   *)
(* from 0-based coordinate tuples to rationals.  Axis a of the code is     *)
(* position a+1 of a coordinate tuple.                                     *)
(***************************************************************************)
EXTENDS Integers, Sequences, FiniteSets, TLC

\* Bounds of the model.
MaxCalls == 6
MaxIter == 8
\* Bits of the significand of a float in the unit conversions.
Precision == 5
\* Largest number of points along an axis in the unit conversions.
MaxPoints == 10
\* A max_iterations argument of getLikelihoodValues in the second set of inputs.
MaxSearch == 9

(***************************************************************************)
(* Floats                                                                  *)
(***************************************************************************)
AbsInt(x) == IF x < 0 THEN -x ELSE x

RECURSIVE GCD(_, _)
GCD(a, b) == IF b = 0 THEN a ELSE GCD(b, a % b)

NaN == [n |-> 0, d |-> 0]

IsNaN(x) == x.d = 0

Q(n, d) ==
    IF d = 0 THEN NaN
    ELSE LET g == GCD(AbsInt(n), AbsInt(d))
             s == IF d < 0 THEN -1 ELSE 1
         IN  [n |-> (s * n) \div g, d |-> (s * d) \div g]

Zero == Q(0, 1)

One == Q(1, 1)

\* Sums over the least common denominator, to keep the integers small.
RAdd(x, y) ==
    IF IsNaN(x) \/ IsNaN(y) THEN NaN
    ELSE LET g == GCD(x.d, y.d)
         IN  Q(x.n * (y.d \div g) + y.n * (x.d \div g), (x.d \div g) * y.d)

RNeg(x) == [n |-> 0 - x.n, d |-> x.d]

RSub(x, y) == RAdd(x, RNeg(y))

\* Products are reduced crosswise first, for the same reason.
RMul(x, y) ==
    IF IsNaN(x) \/ IsNaN(y) THEN NaN
    ELSE LET g == GCD(AbsInt(x.n), y.d)
             h == GCD(AbsInt(y.n), x.d)
         IN  Q((x.n \div g) * (y.n \div h), (x.d \div h) * (y.d \div g))

\* numpy division of non-negative cells: 0/0 is nan and nan propagates (a
\* positive cell is never divided by a zero sum of non-negative cells).
RDiv(x, y) ==
    IF IsNaN(x) \/ IsNaN(y) \/ y.n = 0 THEN NaN
    ELSE RMul(x, IF y.n < 0 THEN [n |-> 0 - y.d, d |-> 0 - y.n] ELSE [n |-> y.d, d |-> y.n])

\* Comparisons with nan are false.
RLess(x, y) ==
    /\ ~IsNaN(x) /\ ~IsNaN(y)
    /\ LET g == GCD(x.d, y.d) IN x.n * (y.d \div g) < y.n * (x.d \div g)

RAbs(x) == [n |-> AbsInt(x.n), d |-> x.d]

\* int(x): truncation toward zero.
Trunc(x) == IF x.n >= 0 THEN x.n \div x.d ELSE -((-x.n) \div x.d)

RECURSIVE Pow2(_)
Pow2(k) == IF k = 0 THEN 1 ELSE 2 * Pow2(k - 1)

\* n/d > 0 scaled by the power of two 2^k that brings it into
\* [2^(Precision-1), 2^Precision).
RECURSIVE Scaled(_, _, _)
Scaled(n, d, k) ==
    IF n >= d * Pow2(Precision) THEN Scaled(n, 2 * d, k - 1)
    ELSE IF n < d * Pow2(Precision - 1) THEN Scaled(2 * n, d, k + 1)
    ELSE [n |-> n, d |-> d, k |-> k]

\* The float nearest to x: a significand of Precision bits, ties to even.
Round(x) ==
    IF IsNaN(x) \/ x.n = 0 THEN x
    ELSE LET s  == Scaled(AbsInt(x.n), x.d, 0)
             m  == s.n \div s.d
             r  == s.n - m * s.d
             up == 2 * r > s.d \/ (2 * r = s.d /\ m % 2 = 1)
             sg == IF x.n < 0 THEN -1 ELSE 1
             mm == sg * (IF up THEN m + 1 ELSE m)
         IN  IF s.k >= 0 THEN Q(mm, Pow2(s.k)) ELSE Q(mm * Pow2(0 - s.k), 1)

\* Float arithmetic: the exact result, rounded.
FAdd(x, y) == Round(RAdd(x, y))

FSub(x, y) == Round(RSub(x, y))

FMul(x, y) == Round(RMul(x, y))

FDiv(x, y) == Round(RDiv(x, y))

(***************************************************************************)
(* Arrays                                                                  *)
(***************************************************************************)
RECURSIVE Coords(_)
Coords(shape) ==
    IF shape = <<>> THEN {<<>>}
    ELSE {<<i>> \o c : i \in 0..(Head(shape) - 1), c \in Coords(Tail(shape))}

NoArray == [shape |-> <<0>>, data |-> [c \in Coords(<<0>>) |-> Zero]]

NDim(a) == Len(a.shape)

RECURSIVE SumOver(_, _)
SumOver(data, S) ==
    IF S = {} THEN Zero
    ELSE LET c == CHOOSE x \in S : TRUE
         IN  RAdd(data[c], SumOver(data, S \ {c}))

\* a.sum()
ArraySum(a) == SumOver(a.data, DOMAIN a.data)

RemoveAt(s, i) == SubSeq(s, 1, i - 1) \o SubSeq(s, i + 1, Len(s))

InsertAt(s, i, x) == SubSeq(s, 1, i - 1) \o <<x>> \o SubSeq(s, i, Len(s))

\* a.sum(axis)
SumAxis(a, axis) ==
    LET sh == RemoveAt(a.shape, axis + 1)
    IN  [shape |-> sh,
         data  |-> [r \in Coords(sh) |->
                      SumOver(a.data, {InsertAt(r, axis + 1, k) : k \in 0..(a.shape[axis + 1] - 1)})]]

\* a / s (a new array)
ArrayDiv(a, s) == [shape |-> a.shape, data |-> [c \in DOMAIN a.data |-> RDiv(a.data[c], s)]]

\* a.max(); nan if any cell is nan
ArrayMax(a) ==
    IF \E c \in DOMAIN a.data : IsNaN(a.data[c]) THEN NaN
    ELSE LET c == CHOOSE x \in DOMAIN a.data : \A y \in DOMAIN a.data : ~RLess(a.data[x], a.data[y])
         IN  a.data[c]

(***************************************************************************)
(* Inputs                                                                  *)
(***************************************************************************)
Names == {"Omega_m", "w", "sigma8"}

\* A name no registry holds.
Unknown == "mu"

IntArray(shape, cells) == [shape |-> shape, data |-> [c \in Coords(shape) |-> Q(cells[c], 1)]]

\* 2 x 2 x 3 grid of positive total weight whose hyperplane w = 0 (axis 1,
\* index 0) is all zero.
Grid3 == IntArray(<<2, 2, 3>>,
            [c \in Coords(<<2, 2, 3>>) |-> c[2] * (1 + c[1] + c[3])])

\* 2 x 2 grid
Grid2 == IntArray(<<2, 2>>, [c \in Coords(<<2, 2>>) |-> 1 + c[1] + 2 * c[2]])

Axes3 == [p \in Names |-> CASE p = "Omega_m" -> 0 [] p = "w" -> 1 [] p = "sigma8" -> 2]

Axes2 == [p \in {"Omega_m", "w"} |-> IF p = "Omega_m" THEN 0 ELSE 1]

Axes1 == [p \in {"w"} |-> 0]

\* The arrays and registries getLikelihood is called with.
Loads == {[grid |-> Grid3, axes |-> Axes3], [grid |-> Grid2, axes |-> Axes2]}

\* The names of a registry by ascending axis.
ByAxis(axes) ==
    [i \in 1..Cardinality(DOMAIN axes) |-> CHOOSE x \in DOMAIN axes : axes[x] = i - 1]

Reverse(s) == [i \in DOMAIN s |-> s[Len(s) + 1 - i]]

\* Orders in which keys() may list the names of a dict (the hash order of a
\* Python 2 dict): here the order of the axes and its reverse.
KeyOrders(axes) == {ByAxis(axes), Reverse(ByAxis(axes))}

\* An options file: per section min, max, num_points.
Options3 == [p \in Names |->
    CASE p = "Omega_m" -> [min |-> Q(0, 1), max |-> Q(1, 1), num_points |-> 2]
      [] p = "w"       -> [min |-> Q(-2, 1), max |-> Q(0, 1), num_points |-> 2]
      [] p = "sigma8"  -> [min |-> Q(1, 1), max |-> Q(3, 1), num_points |-> 3]]

OptionFiles == {Options3}

(***************************************************************************)
(* State                                                                   *)
(***************************************************************************)
VARIABLES
    attrs,                  \* the attributes set on the object (hasattr)
    likelihood,             \* self.likelihood
    parameter_axes,         \* self.parameter_axes
    key_order,              \* the order in which parameter_axes.keys() lists the names
    min, max, npoints, unit,\* the calibration dicts
    reduced_likelihood,     \* self.reduced_likelihood
    remaining_parameters,   \* self.remaining_parameters
    extent,                 \* self.extent
    original_p_values, computed_p_values, likelihood_values,
    pc, lv,                 \* position in and locals of getLikelihoodValues
    contour,                \* self.contour: what plotContours drew
    call, err, ret,         \* the last call, the exception it raised ("" if none), what it returned
    ncalls

vars == <<attrs, likelihood, parameter_axes, key_order, min, max, npoints, unit,
          reduced_likelihood, remaining_parameters, extent,
          original_p_values, computed_p_values, likelihood_values,
          pc, lv, contour, call, err, ret, ncalls>>

calibration == <<min, max, npoints, unit>>

reduction == <<reduced_likelihood, remaining_parameters, extent>>

stored == <<original_p_values, computed_p_values, likelihood_values>>

Put(dict, k, v) == [x \in (DOMAIN dict) \cup {k} |-> IF x = k THEN v ELSE dict[x]]

EmptyDict == [x \in {} |-> Zero]

NoLocals == [levels |-> <<>>, epsilon |-> Zero, max_iterations |-> 0, n |-> 0,
             iterations |-> 0, value |-> Zero, confidence_integral |-> Zero,
             step |-> Zero, direction |-> 0, max_likelihood |-> Zero,
             values |-> <<>>, p_values |-> <<>>]

Call(op, name, value) ==
    [op |-> op, name |-> name, value |-> value,
     levels |-> <<>>, epsilon |-> Zero, max_iterations |-> 0, args |-> <<>>]

NoContour == [likelihood |-> NoArray, values |-> <<>>, p_values |-> <<>>]

\* ContourPlot.__init__
Init ==
    /\ attrs = {}
    /\ likelihood = NoArray
    /\ parameter_axes = [x \in {} |-> 0]
    /\ key_order = <<>>
    /\ min = EmptyDict /\ max = EmptyDict /\ unit = EmptyDict
    /\ npoints = [x \in {} |-> 0]
    /\ reduced_likelihood = NoArray
    /\ remaining_parameters = <<>>
    /\ extent = <<>>
    /\ original_p_values = <<>> /\ computed_p_values = <<>> /\ likelihood_values = <<>>
    /\ pc = "idle" /\ lv = NoLocals
    /\ contour = NoContour
    /\ call = Call("__init__", "", Zero) /\ err = "" /\ ret = <<>>
    /\ ncalls = 0

\* A call is made when no call is running.
Calling(c) ==
    /\ pc = "idle"
    /\ ncalls < MaxCalls
    /\ ncalls' = ncalls + 1
    /\ call' = c

(***************************************************************************)
(* getLikelihood(array, parameter_axes)                                    *)
(***************************************************************************)
getLikelihoodOf(loads) ==
    \E inp \in loads :
    \E order \in KeyOrders(inp.axes) :
        /\ Calling(Call("getLikelihood", "", Zero))
        /\ parameter_axes' = inp.axes
        /\ key_order' = order
        /\ likelihood' = inp.grid
        /\ attrs' = attrs \cup {"parameter_axes", "likelihood"}
        /\ err' = IF Cardinality(DOMAIN inp.axes) = NDim(inp.grid) THEN ""
                  ELSE "AssertionError: number of parameters"
        /\ ret' = <<>>
        /\ UNCHANGED <<calibration, reduction, stored, pc, lv, contour>>

getLikelihood == getLikelihoodOf(Loads)

(***************************************************************************)
(* getUnitsFromOptions(options)                                            *)
(***************************************************************************)
\* The loop over parameter_axes.keys(), from position i, on the calibration
\* cal = [min, max, npoints, unit, err]; it stops at the first exception.
\* (max - min) / (npoints - 1)
UnitOf(lo, hi, n) == FDiv(FSub(Round(hi), Round(lo)), Q(n - 1, 1))

RECURSIVE UnitsLoop(_, _, _)
UnitsLoop(options, i, cal) ==
    IF i > Len(key_order) THEN cal
    ELSE LET p  == key_order[i]
             o  == options[p]
             c1 == [cal EXCEPT !.min = Put(cal.min, p, Round(o.min)),
                               !.max = Put(cal.max, p, Round(o.max)),
                               !.npoints = Put(cal.npoints, p, o.num_points)]
         IN  IF parameter_axes[p] >= NDim(likelihood)
               THEN [c1 EXCEPT !.err = "IndexError"]
             ELSE IF o.num_points # likelihood.shape[parameter_axes[p] + 1]
               THEN [c1 EXCEPT !.err = "AssertionError: num_points"]
             ELSE IF o.num_points - 1 = 0
               THEN [c1 EXCEPT !.err = "ZeroDivisionError"]
             ELSE UnitsLoop(options, i + 1,
                    [c1 EXCEPT !.unit = Put(cal.unit, p, UnitOf(o.min, o.max, o.num_points))])

getUnitsFromOptionsOf(files) ==
    \E options \in files :
        /\ Calling(Call("getUnitsFromOptions", "", Zero))
        /\ LET cal == IF "parameter_axes" \notin attrs
                        THEN [min |-> min, max |-> max, npoints |-> npoints, unit |-> unit,
                              err |-> "AssertionError: load first"]
                      ELSE UnitsLoop(options, 1,
                              [min |-> min, max |-> max, npoints |-> npoints, unit |-> unit,
                               err |-> ""])
           IN  /\ min' = cal.min /\ max' = cal.max
               /\ npoints' = cal.npoints /\ unit' = cal.unit
               /\ err' = cal.err
        /\ ret' = <<>>
        /\ UNCHANGED <<attrs, likelihood, parameter_axes, key_order, reduction, stored, pc, lv, contour>>

getUnitsFromOptions == getUnitsFromOptionsOf(OptionFiles)

(***************************************************************************)
(* setUnits(parameter, min, max, unit)                                     *)
(***************************************************************************)
UnitInputs == {[name |-> "w", min |-> Q(-2, 1), max |-> Q(0, 1), unit |-> Q(1, 1)]}

setUnits ==
    \E u \in UnitInputs :
        /\ Calling(Call("setUnits", u.name, Zero))
        /\ IF "parameter_axes" \notin attrs
             THEN err' = "AssertionError: load first" /\ UNCHANGED calibration
           ELSE IF u.name \notin DOMAIN parameter_axes
             THEN err' = "AssertionError: parameter does not exist" /\ UNCHANGED calibration
           ELSE /\ min' = Put(min, u.name, u.min)
                /\ max' = Put(max, u.name, u.max)
                /\ unit' = Put(unit, u.name, u.unit)
                /\ err' = ""
                /\ UNCHANGED npoints
        /\ ret' = <<>>
        /\ UNCHANGED <<attrs, likelihood, parameter_axes, key_order, reduction, stored, pc, lv, contour>>

(***************************************************************************)
(* Grid reduction: marginalize(parameter_name), slice(name, value)         *)
(***************************************************************************)
NormalizeSkipped(a) == a

\* a / a.sum()
Normalize(a) == ArrayDiv(a, ArraySum(a))

\* keys() with parameter_name popped
Popped(name) == SelectSeq(key_order, LAMBDA x : x # name)

\* names.sort(key=parameter_axes.get), for a one-to-one registry
SortByAxis(names) ==
    LET S == {names[i] : i \in DOMAIN names}
    IN  [i \in DOMAIN names |->
            CHOOSE x \in S : Cardinality({y \in S : parameter_axes[y] < parameter_axes[x]}) = i - 1]

RegisteredUnchecked(name) == TRUE

\* assert parameter_name in self.parameter_axes.keys()
Registered(name) == name \in DOMAIN parameter_axes

\* The exception raised by the evaluation of the extent tuple on the list rem
\* of remaining parameters, "" if none.
ExtentError(rem) ==
    IF Len(rem) < 1 THEN "IndexError"
    ELSE IF rem[1] \notin DOMAIN min \/ rem[1] \notin DOMAIN max THEN "KeyError"
    ELSE IF Len(rem) < 2 THEN "IndexError"
    ELSE IF rem[2] \notin DOMAIN min \/ rem[2] \notin DOMAIN max THEN "KeyError"
    ELSE ""

ExtentOfFirst(rem) == <<min[rem[1]], max[rem[1]], min[rem[1]], max[rem[1]]>>

\* (min[r0], max[r0], min[r1], max[r1]) of the remaining parameters
ExtentOf(rem) == <<min[rem[1]], max[rem[1]], min[rem[2]], max[rem[2]]>>

\* The end of marginalize and slice: reduced likelihood and remaining
\* parameters are assigned, then the extent is computed from them.
Reduced(lik, red, rem) ==
    /\ likelihood' = lik
    /\ reduced_likelihood' = red
    /\ remaining_parameters' = rem
    /\ err' = ExtentError(rem)
    /\ extent' = IF ExtentError(rem) = "" THEN ExtentOf(rem) ELSE extent
    /\ attrs' = attrs \cup {"reduced_likelihood", "remaining_parameters"}
                      \cup (IF ExtentError(rem) = "" THEN {"extent"} ELSE {})

\* An exception raised before anything is assigned.
Raised(e) ==
    /\ err' = e
    /\ UNCHANGED <<attrs, likelihood, reduction>>

MarginalizeNames == {"w", "sigma8", Unknown}

marginalizeOf(names) ==
    \E name \in names :
        /\ Calling(Call("marginalize", name, Zero))
        /\ IF "likelihood" \notin attrs THEN Raised("AssertionError: load first")
           ELSE IF ~Registered(name) THEN Raised("AssertionError: parameter does not exist")
           ELSE IF NDim(likelihood) < 3
             THEN Reduced(likelihood, Normalize(likelihood), key_order)
           ELSE IF name \notin DOMAIN parameter_axes THEN Raised("KeyError")
           ELSE IF parameter_axes[name] >= NDim(likelihood) THEN Raised("ValueError")
           ELSE Reduced(likelihood,
                        Normalize(SumAxis(likelihood, parameter_axes[name])),
                        SortByAxis(Popped(name)))
        /\ ret' = <<>>
        /\ UNCHANGED <<parameter_axes, key_order, calibration, stored, pc, lv, contour>>

marginalize == marginalizeOf(MarginalizeNames)

\* int((parameter_value - self.min[name]) / self.unit[name])
SliceIndex(name, value) == Trunc(FDiv(FSub(Round(value), min[name]), unit[name]))

InBoundsInclusive(slice_index, n) == slice_index <= n

\* assert slice_index < self.npoints[parameter_name]
InBounds(slice_index, n) == slice_index < n

\* The position list[index] reads in a Python list of the given length.
ListIndex(index, length) == IF index < 0 THEN index + length ELSE index

\* The cells of a that np.split(a, sections, axis)[j] views.
SectionCoords(a, sections, axis, j) ==
    LET width == a.shape[axis + 1] \div sections
    IN  {c \in DOMAIN a.data : c[axis + 1] \in (j * width)..((j + 1) * width - 1)}

\* np.split(a, sections, axis)[j]
Section(a, sections, axis, j) ==
    LET width == a.shape[axis + 1] \div sections
        sh    == [a.shape EXCEPT ![axis + 1] = width]
    IN  [shape |-> sh,
         data  |-> [r \in Coords(sh) |-> a.data[[r EXCEPT ![axis + 1] = r[axis + 1] + j * width]]]]

RECURSIVE Unsqueeze(_, _)
Unsqueeze(shape, r) ==
    IF shape = <<>> THEN <<>>
    ELSE IF Head(shape) = 1 THEN <<0>> \o Unsqueeze(Tail(shape), r)
    ELSE <<Head(r)>> \o Unsqueeze(Tail(shape), Tail(r))

\* a.squeeze()
Squeeze(a) ==
    LET sh == SelectSeq(a.shape, LAMBDA n : n # 1)
    IN  [shape |-> sh, data |-> [r \in Coords(sh) |-> a.data[Unsqueeze(a.shape, r)]]]

DivideInPlaceSkipped(a, S) == a

\* self.reduced_likelihood /= self.reduced_likelihood.sum(), the reduced
\* likelihood being a view of the cells S of the array a: the array after it.
DivideInPlace(a, S) ==
    LET total == SumOver(a.data, S)
    IN  [a EXCEPT !.data = [c \in DOMAIN a.data |->
                               IF c \in S THEN RDiv(a.data[c], total) ELSE a.data[c]]]

SliceInputs ==
    {[name |-> "w", value |-> v] : v \in {Q(-8, 1), Q(-4, 1), Q(-2, 1), Q(-4, 5), Q(0, 1), Q(100, 1)}}
    \cup {[name |-> "sigma8", value |-> Q(3, 1)], [name |-> Unknown, value |-> Q(0, 1)]}

sliceOf(inputs) ==
    \E inp \in inputs :
    LET name == inp.name
        value == inp.value
    IN  /\ Calling(Call("slice", name, value))
        /\ IF "likelihood" \notin attrs THEN Raised("AssertionError: load first")
           ELSE IF ~Registered(name) THEN Raised("AssertionError: parameter does not exist")
           ELSE IF NDim(likelihood) < 3
             THEN Reduced(likelihood, Normalize(likelihood), key_order)
           ELSE IF name \notin DOMAIN parameter_axes THEN Raised("KeyError")
           ELSE IF name \notin DOMAIN min \/ name \notin DOMAIN unit THEN Raised("KeyError")
           ELSE IF unit[name].n = 0 THEN Raised("ZeroDivisionError")
           ELSE IF name \notin DOMAIN npoints THEN Raised("KeyError")
           ELSE IF ~InBounds(SliceIndex(name, value), npoints[name])
             THEN Raised("AssertionError: Out of bounds!")
           ELSE IF parameter_axes[name] >= NDim(likelihood) THEN Raised("IndexError")
           ELSE IF likelihood.shape[parameter_axes[name] + 1] % npoints[name] # 0
             THEN Raised("ValueError")
           ELSE IF ListIndex(SliceIndex(name, value), npoints[name]) \notin 0..(npoints[name] - 1)
             THEN Raised("IndexError")
           ELSE LET axis == parameter_axes[name]
                    j    == ListIndex(SliceIndex(name, value), npoints[name])
                    lik  == DivideInPlace(likelihood, SectionCoords(likelihood, npoints[name], axis, j))
                IN  Reduced(lik,
                            Squeeze(Section(lik, npoints[name], axis, j)),
                            SortByAxis(Popped(name)))
        /\ ret' = <<>>
        /\ UNCHANGED <<parameter_axes, key_order, calibration, stored, pc, lv, contour>>

slice == sliceOf(SliceInputs)

(***************************************************************************)
(* getLikelihoodValues(levels, epsilon, max_iterations)                    *)
(***************************************************************************)
ApproxOneUnchecked(x) == TRUE

\* np.testing.assert_approx_equal(x, 1.0): 7 significant digits
ApproxOne(x) == ~IsNaN(x) /\ RLess(RAbs(RSub(x, One)), Q(1, 1000000))

\* likelihood[likelihood > value].sum()
Confidence(a, value) == SumOver(a.data, {c \in DOMAIN a.data : RLess(value, a.data[c])})

\* max_likelihood*np.exp(-0.5*f.ppf(level)), f = chi2(2): the quantile of
\* level is -2 ln(1 - level), so the factor is 1 - level.
Seed(max_likelihood, level) == RMul(max_likelihood, RSub(One, level))

\* The condition of the while loop.
OffTarget(confidence_integral, level, epsilon) ==
    RLess(epsilon, RAbs(RSub(RDiv(confidence_integral, level), One)))

TooManyLate(iterations, max_iterations) == iterations > max_iterations + 1

\* if iterations > max_iterations: break
TooMany(iterations, max_iterations) == iterations > max_iterations

ShrunkByHalf(step) == RDiv(step, Q(2, 1))

\* step /= 10.0
Shrunk(step) == RDiv(step, Q(10, 1))

\* The value the search moves to.
Moved(value, step, up) == IF up THEN RAdd(value, step) ELSE RSub(value, step)

\* One pass of the loop body that does not break, on the locals l.
Updated(l, a) ==
    LET level == l.levels[l.n]
        up    == RLess(level, l.confidence_integral)
        turn  == IF up THEN l.direction = -1 ELSE l.direction = 1
        step  == IF turn THEN Shrunk(l.step) ELSE l.step
        value == Moved(l.value, step, up)
    IN  [l EXCEPT !.iterations = l.iterations + 1,
                  !.step = step,
                  !.value = value,
                  !.direction = IF up THEN 1 ELSE -1,
                  !.confidence_integral = Confidence(a, value)]

\* The start of the search of level n: the iteration counter and the guess.
Seeded(l, a, n) ==
    LET value == Seed(l.max_likelihood, l.levels[n])
    IN  [l EXCEPT !.n = n, !.iterations = 0, !.value = value,
                  !.confidence_integral = Confidence(a, value)]

LevelLists == {<<Q(9, 10)>>, <<Q(1, 2), Q(9, 10)>>, <<Q(9, 10), Q(1, 2)>>}

Epsilons == {Q(1, 100)}

MaxIterations == {0, MaxIter}

\* The body of getLikelihoodValues up to the first pass of the loop over
\* levels.
Entered(levels, epsilon, max_iterations) ==
    /\ IF "reduced_likelihood" \notin attrs
         THEN err' = "AttributeError" /\ UNCHANGED <<attrs, original_p_values, pc, lv>>
       ELSE /\ original_p_values' = levels
            /\ attrs' = attrs \cup {"original_p_values"}
            /\ IF NDim(reduced_likelihood) # 2
                 THEN err' = "AssertionError: ndim" /\ UNCHANGED <<pc, lv>>
               ELSE IF ~ApproxOne(ArraySum(reduced_likelihood))
                 THEN err' = "AssertionError: not normalized" /\ UNCHANGED <<pc, lv>>
               ELSE /\ err' = ""
                    /\ pc' = "while"
                    /\ lv' = Seeded([NoLocals EXCEPT
                                        !.levels = levels, !.epsilon = epsilon,
                                        !.max_iterations = max_iterations,
                                        !.max_likelihood = ArrayMax(reduced_likelihood),
                                        !.step = ArrayMax(reduced_likelihood),
                                        !.direction = 0],
                                    reduced_likelihood, 1)
    /\ UNCHANGED <<likelihood, parameter_axes, key_order, calibration, reduction,
                   computed_p_values, likelihood_values, contour>>

\* The call of getLikelihoodValues.
glvCallOf(level_lists, epsilons, iterations) ==
    \E levels \in level_lists, epsilon \in epsilons, max_iterations \in iterations :
        /\ Calling([op |-> "getLikelihoodValues", name |-> "", value |-> Zero,
                    levels |-> levels, epsilon |-> epsilon, max_iterations |-> max_iterations,
                    args |-> <<>>])
        /\ ret' = <<>>
        /\ Entered(levels, epsilon, max_iterations)

glvCall == glvCallOf(LevelLists, Epsilons, MaxIterations)

\* The loop goes on: the target is missed and the iterations are not used up.
GoesOn(l) ==
    /\ OffTarget(l.confidence_integral, l.levels[l.n], l.epsilon)
    /\ ~TooMany(l.iterations + 1, l.max_iterations)

glvUpdate ==
    /\ pc = "while"
    /\ GoesOn(lv)
    /\ lv' = Updated(lv, reduced_likelihood)
    /\ UNCHANGED <<attrs, likelihood, parameter_axes, key_order, calibration, reduction,
                   stored, pc, contour, call, err, ret, ncalls>>

AppendedFirst(l) ==
    [l EXCEPT !.values = <<l.value>> \o l.values,
              !.p_values = <<l.confidence_integral>> \o l.p_values]

\* values.append(value); p_values.append(confidence_integral)
Appended(l) ==
    [l EXCEPT !.values = Append(l.values, l.value),
              !.p_values = Append(l.p_values, l.confidence_integral)]

\* The loop of a level ends; the next level starts, if any.
glvAppend ==
    /\ pc = "while"
    /\ ~GoesOn(lv)
    /\ IF lv.n < Len(lv.levels)
         THEN lv' = Seeded(Appended(lv), reduced_likelihood, lv.n + 1) /\ pc' = pc
         ELSE lv' = Appended(lv) /\ pc' = "return"
    /\ UNCHANGED <<attrs, likelihood, parameter_axes, key_order, calibration, reduction,
                   stored, contour, call, err, ret, ncalls>>

\* What the call returns.
Returned(l) == <<l.values>>

glvReturn ==
    /\ pc = "return"
    /\ computed_p_values' = lv.p_values
    /\ likelihood_values' = lv.values
    /\ attrs' = attrs \cup {"computed_p_values", "likelihood_values"}
    /\ ret' = Returned(lv)
    /\ pc' = IF call.op = "plotContours" THEN "plot" ELSE "idle"
    /\ lv' = NoLocals
    /\ UNCHANGED <<likelihood, parameter_axes, key_order, calibration, reduction,
                   original_p_values, contour, call, err, ncalls>>

getLikelihoodValues == glvCall \/ glvUpdate \/ glvAppend \/ glvReturn

(***************************************************************************)
(* getMaximum(which), value(coordinates)                                   *)
(***************************************************************************)
\* c comes before d in the row-major order of the cells.
RECURSIVE RowMajorBefore(_, _)
RowMajorBefore(c, d) ==
    /\ c # <<>>
    /\ \/ Head(c) < Head(d)
       \/ Head(c) = Head(d) /\ RowMajorBefore(Tail(c), Tail(d))

\* np.where(a == a.max()): the cells of the maximum; none if a cell is nan.
WhereMax(a) == {c \in DOMAIN a.data : ~IsNaN(ArrayMax(a)) /\ a.data[c] = ArrayMax(a)}

\* The first of them: max_loc[axis][0] is position axis + 1 of it.
FirstMax(a) == CHOOSE c \in WhereMax(a) : \A d \in WhereMax(a) : ~RowMajorBefore(d, c)

\* index * self.unit[parameter] + self.min[parameter]
PhysicalOf(name, index) == FAdd(FMul(Q(index, 1), unit[name]), min[name])

\* The dict getMaximum builds over the names, in their order, from position
\* i on: [err, max_parameters]; it stops at the first exception. The full
\* grid is read at the axis of the name, the reduced one at the position of
\* the name in remaining_parameters.
RECURSIVE MaximumLoop(_, _, _, _)
MaximumLoop(which, names, i, out) ==
    IF i > Len(names) THEN out
    ELSE LET a    == IF which = "full" THEN likelihood ELSE reduced_likelihood
             p    == names[i]
             axis == IF which = "full" THEN parameter_axes[p] ELSE i - 1
         IN  IF axis >= NDim(a) \/ WhereMax(a) = {} THEN [out EXCEPT !.err = "IndexError"]
             ELSE IF p \notin DOMAIN unit \/ p \notin DOMAIN min THEN [out EXCEPT !.err = "KeyError"]
             ELSE MaximumLoop(which, names, i + 1,
                    [out EXCEPT !.max_parameters =
                        Put(out.max_parameters, p, PhysicalOf(p, FirstMax(a)[axis + 1]))])

Whiches == {"full", "reduced"}

getMaximum ==
    \E which \in Whiches :
        /\ Calling(Call("getMaximum", which, Zero))
        /\ LET missing == IF which = "full" THEN "likelihood" \notin attrs
                          ELSE "reduced_likelihood" \notin attrs
               out == IF which = "full"
                        THEN MaximumLoop(which, key_order, 1,
                                         [err |-> "", max_parameters |-> EmptyDict])
                      ELSE MaximumLoop(which, remaining_parameters, 1,
                                       [err |-> "", max_parameters |-> EmptyDict])
           IN  IF missing THEN err' = "AttributeError" /\ ret' = <<>>
               ELSE /\ err' = out.err
                    /\ ret' = IF out.err = "" THEN <<out.max_parameters>> ELSE <<>>
        /\ UNCHANGED <<attrs, likelihood, parameter_axes, key_order, calibration, reduction,
                       stored, pc, lv, contour>>

\* return None: nothing is returned, as at the end of a method without a
\* return statement.
None == <<>>

\* The exception of the loop of value over the names, "" if none.
ValueError(coordinates) ==
    IF \E p \in DOMAIN parameter_axes : p \notin DOMAIN unit \/ p \notin DOMAIN min
      THEN "AssertionError"
    ELSE IF \E p \in DOMAIN parameter_axes : parameter_axes[p] >= Len(coordinates)
      THEN "IndexError"
    ELSE IF \E p \in DOMAIN parameter_axes : unit[p].n = 0 THEN "ZeroDivisionError"
    ELSE ""

\* pix: per axis, int((coordinates[axis] - min) / unit) of the parameter of
\* that axis (the same expression as the slice index).
Pix(coordinates) ==
    [i \in 1..Len(coordinates) |->
        LET p == CHOOSE x \in DOMAIN parameter_axes : parameter_axes[x] = i - 1
        IN  SliceIndex(p, coordinates[i])]

\* The cell an index tuple reads: a negative index counts from the end.
Wrapped(pix, shape) == [i \in DOMAIN pix |-> ListIndex(pix[i], shape[i])]

\* value on the coordinate tuples C.  pix is an array of floats: a numpy that
\* takes float indices reads the cell, one that rejects them raises the
\* IndexError that value catches.
ValueAt(C) ==
    \E coordinates \in C, float_index \in BOOLEAN :
        /\ Calling([Call("value", "", Zero) EXCEPT !.args = coordinates])
        /\ IF "likelihood" \notin attrs THEN err' = "AttributeError" /\ ret' = <<>>
           ELSE IF Len(coordinates) # NDim(likelihood)
             THEN err' = "AssertionError: one coordinate for each axis" /\ ret' = <<>>
           ELSE IF ValueError(coordinates) # "" THEN err' = ValueError(coordinates) /\ ret' = <<>>
           ELSE /\ err' = ""
                /\ LET cell == Wrapped(Pix(coordinates), likelihood.shape)
                   IN  ret' = IF float_index /\ cell \in DOMAIN likelihood.data
                                THEN <<likelihood.data[cell]>>
                              ELSE None
        /\ UNCHANGED <<attrs, likelihood, parameter_axes, key_order, calibration, reduction,
                       stored, pc, lv, contour>>

\* The coordinates getMaximum has just returned, by axis.
MaximumCoordinates ==
    IF call.op = "getMaximum" /\ call.name = "full" /\ err = "" /\ ret # <<>>
      THEN {[i \in 1..Len(key_order) |-> ret[1][ByAxis(parameter_axes)[i]]]}
    ELSE {}

valueOfMaximum == ValueAt(MaximumCoordinates)

(***************************************************************************)
(* plotContours(): the thresholds it draws                                 *)
(***************************************************************************)
\* levels=[0.683,0.95,0.997] of the call plotContours makes
DefaultLevels == <<Q(683, 1000), Q(19, 20), Q(997, 1000)>>

\* epsilon=0.01
DefaultEpsilon == Q(1, 100)

\* max_iterations=1000, cut to the bound of the model
DefaultMaxIterations == IF 1000 > MaxIter THEN MaxIter ELSE 1000

\* colors=["red","green","blue"]
Colors == <<"red", "green", "blue">>

\* The exception raised before the contour is drawn, "" if none.
DrawError ==
    IF Len(Colors) < Len(likelihood_values) THEN "AssertionError: colors"
    ELSE IF "extent" \notin attrs THEN "AttributeError"
    ELSE IF NDim(reduced_likelihood) < 2 THEN "IndexError"
    ELSE IF \E i \in 1..2 : reduced_likelihood.shape[i] = 1 THEN "ZeroDivisionError"
    ELSE IF Len(computed_p_values) < Len(likelihood_values) THEN "IndexError"
    ELSE ""

\* From the assertion on the colors to the end: the contour of the reduced
\* likelihood at the stored thresholds, labelled with the stored confidences;
\* then the lines through the maximum, which a nan likelihood does not have.
Drawn ==
    /\ contour' = IF DrawError = ""
                    THEN [likelihood |-> reduced_likelihood, values |-> likelihood_values,
                          p_values |-> computed_p_values]
                  ELSE contour
    /\ err' = IF DrawError = "" /\ WhereMax(reduced_likelihood) = {} THEN "IndexError"
              ELSE DrawError

\* The call: the thresholds are computed only if none are stored.
plotContours ==
    /\ Calling(Call("plotContours", "", Zero))
    /\ ret' = <<>>
    /\ IF "likelihood_values" \notin attrs
         THEN Entered(DefaultLevels, DefaultEpsilon, DefaultMaxIterations)
       ELSE /\ Drawn
            /\ UNCHANGED <<attrs, likelihood, parameter_axes, key_order, calibration, reduction,
                           stored, pc, lv>>

\* After the thresholds are computed.
plotDraw ==
    /\ pc = "plot"
    /\ Drawn
    /\ pc' = "idle"
    /\ ret' = <<>>
    /\ UNCHANGED <<attrs, likelihood, parameter_axes, key_order, calibration, reduction,
                   stored, lv, call, ncalls>>

(***************************************************************************)
(* A second set of inputs: normalized grids of one, two and three          *)
(* dimensions with three points along every axis, the last one separable.  *)
(***************************************************************************)
RatArray(shape, cells, d) == [shape |-> shape, data |-> [c \in Coords(shape) |-> Q(cells[c], d)]]

\* Weights 1, 2, 1 along an axis.
Bell(i) == IF i = 1 THEN 2 ELSE 1

\* One dimension, sums to 1.
Grid1 == RatArray(<<3>>, [c \in Coords(<<3>>) |-> Bell(c[1])], 4)

\* Two dimensions, a single peak at the centre, sums to 1.
GridPeak == RatArray(<<3, 3>>,
                [c \in Coords(<<3, 3>>) |->
                    IF c = <<1, 1>> THEN 20 ELSE IF c[1] = 1 \/ c[2] = 1 THEN 4 ELSE 1], 40)

\* Three dimensions, f(x) g(y) h(z) with positive factors, h largest at z = 1.
GridSep == RatArray(<<3, 3, 3>>,
                [c \in Coords(<<3, 3, 3>>) |-> Bell(c[1]) * (1 + 2 * (c[2] % 2)) * Bell(c[3])], 80)

\* Two dimensions, a single broad peak at the centre, sums to 1.
GridBroad == RatArray(<<3, 3>>,
                [c \in Coords(<<3, 3>>) |->
                    <<<<1, 8, 0>>, <<3, 14, 7>>, <<1, 11, 5>>>>[c[1] + 1][c[2] + 1]], 50)

LoadsB == {[grid |-> Grid1, axes |-> Axes1],
           [grid |-> GridPeak, axes |-> Axes2],
           [grid |-> GridBroad, axes |-> Axes2],
           [grid |-> GridSep, axes |-> Axes3]}

\* Three points for every parameter.
OptionsB == [p \in Names |-> [Options3[p] EXCEPT !.num_points = 3]]

OptionFilesB == {OptionsB, Options3}

MarginalizeNamesB == {"w", "sigma8"}

\* sigma8 = 2 and w = -1 are the pixels 1 of the calibration of OptionsB; -4
\* is below the range of w.
SliceInputsB == {[name |-> "sigma8", value |-> Q(2, 1)], [name |-> "w", value |-> Q(-4, 1)]}

\* Coordinates for grids of three, two and one dimensions: inside the range,
\* w below its minimum, w above its maximum.
CoordinatesB ==
    {<<Q(1, 2), Q(-1, 1), Q(2, 1)>>, <<Q(0, 1), Q(-3, 1), Q(1, 1)>>,
     <<Q(0, 1), Q(-3, 1)>>, <<Q(0, 1), Q(100, 1)>>, <<Q(-3, 1)>>}

LevelListsB == {<<Q(1, 2), Q(9, 10)>>}

getLikelihoodB == getLikelihoodOf(LoadsB)

getUnitsFromOptionsB == getUnitsFromOptionsOf(OptionFilesB)

marginalizeB == marginalizeOf(MarginalizeNamesB)

sliceB == sliceOf(SliceInputsB)

value == ValueAt(CoordinatesB)

glvCallB == glvCallOf(LevelListsB, Epsilons, {MaxIter, MaxSearch})

NextB ==
    \/ getLikelihoodB
    \/ getUnitsFromOptionsB
    \/ marginalizeB
    \/ sliceB
    \/ value
    \/ glvCallB
    \/ glvUpdate
    \/ glvAppend
    \/ glvReturn
    \/ plotContours
    \/ plotDraw

SpecB == Init /\ [][NextB]_vars

(***************************************************************************)
(* _1d_level_values(p, l, level, quantity): sequences are indexed from 1,  *)
(* position i is index i - 1 of the code.                                  *)
(***************************************************************************)
\* np.where(l == l.max())[0][0]
FirstArgMax(s) ==
    CHOOSE i \in DOMAIN s :
        /\ \A j \in DOMAIN s : ~RLess(s[i], s[j])
        /\ \A j \in 1..(i - 1) : RLess(s[j], s[i])

\* np.argmin(s)
FirstArgMin(s) ==
    CHOOSE i \in DOMAIN s :
        /\ \A j \in DOMAIN s : ~RLess(s[j], s[i])
        /\ \A j \in 1..(i - 1) : RLess(s[i], s[j])

\* all_levels[n] = l[l >= l[n]].sum() / l.sum()
AllLevels(l) ==
    [n \in DOMAIN l |->
        RDiv(SumOver(l, {i \in DOMAIN l : ~RLess(l[i], l[n])}), SumOver(l, DOMAIN l))]

\* stats.rankdata(d).astype(np.int) - 1: tied samples share the average of
\* their ranks, cut to an integer.
Ranks(d) ==
    [i \in DOMAIN d |->
        Cardinality({j \in DOMAIN d : RLess(d[j], d[i])})
          + ((Cardinality({j \in DOMAIN d : d[j] = d[i]}) + 1) \div 2) - 1]

SortByClosenessSkipped(par, parmax) == par

\* par.sort(key=_closest): a stable sort by |x - parmax|
SortByCloseness(par, parmax) ==
    LET key(i) == RAbs(RSub(par[i], parmax))
        place(i) == Cardinality({j \in DOMAIN par : RLess(key(j), key(i))})
                      + Cardinality({j \in 1..(i - 1) : key(j) = key(i)}) + 1
    IN  [k \in DOMAIN par |-> par[CHOOSE i \in DOMAIN par : place(i) = k]]

\* The function: [err, par], par being what it returns if err = "".
_1d_level_values(p, l, level, quantity) ==
    LET parmax  == p[FirstArgMax(l)]
        levels  == AllLevels(l)
        closest == FirstArgMin([n \in DOMAIN l |-> RAbs(RSub(levels[n], level))])
        ranks   == Ranks([n \in DOMAIN l |-> RAbs(RSub(l[n], l[closest]))])
        found(n) == {i \in DOMAIN l : ranks[i] = n}
    IN  IF \E n \in 0..(quantity - 1) : found(n) = {}
          THEN [err |-> "IndexError", par |-> <<>>]
        ELSE [err |-> "",
              par |-> SortByCloseness(
                        [k \in 1..quantity |->
                            p[CHOOSE i \in found(k - 1) : \A j \in found(k - 1) : i <= j]],
                        parmax)]

\* Likelihood curves: symmetric about a single mode, flat, and skewed.
Curves == {<<1, 8, 1>>, <<1, 3, 1>>, <<1, 2, 4, 2, 1>>, <<1, 2, 3, 2, 1>>,
           <<1, 1, 1>>, <<1, 3, 9, 4, 2>>, <<2, 5, 9, 4, 1>>,
           <<1, 4, 16, 8, 2>>, <<2, 16, 8, 4, 1>>}

\* The curve as an array of floats.
Curve(c) == [i \in DOMAIN c |-> Q(c[i], 1)]

\* The parameter values of a regular grid from -2 in steps of 1.
RegularGrid(n) == [i \in 1..n |-> Q(i - 3, 1)]

\* level=0.684 is the default.
Levels1D == {Q(684, 1000), Q(1, 2)}

\* quantity=2 is the default, marginal passes 3.
Quantities == {2, 3}

\* A call of the function.
callLevelValues ==
    \E c \in Curves, level \in Levels1D, quantity \in Quantities :
        LET out == _1d_level_values(RegularGrid(Len(c)), Curve(c), level, quantity)
        IN  /\ Calling([Call("_1d_level_values", "", level) EXCEPT
                            !.args = <<RegularGrid(Len(c)), Curve(c), level, quantity>>])
            /\ err' = out.err
            /\ ret' = IF out.err = "" THEN <<out.par>> ELSE <<>>
            /\ UNCHANGED <<attrs, likelihood, parameter_axes, key_order, calibration, reduction,
                           stored, pc, lv, contour>>

NextLevels == callLevelValues

SpecLevels == Init /\ [][NextLevels]_vars

(***************************************************************************)
(* The unit conversions on a calibrated axis: a grid of one dimension with *)
(* its maximum at a chosen pixel, loaded and calibrated from an options    *)
(* file, then getMaximum and value at the maximum.                         *)
(***************************************************************************)
Ranges == {[min |-> Q(0, 1), max |-> Q(1, 1)], [min |-> Q(-2, 1), max |-> Q(0, 1)]}

\* n cells, 2 at pixel peak and 1 elsewhere
Peaked(n, peak) == IntArray(<<n>>, [c \in Coords(<<n>>) |-> IF c[1] = peak THEN 2 ELSE 1])

InitPixels ==
    \E n \in 2..MaxPoints, r \in Ranges :
    \E peak \in 0..(n - 1) :
        /\ attrs = {"parameter_axes", "likelihood"}
        /\ likelihood = Peaked(n, peak)
        /\ parameter_axes = Axes1
        /\ key_order = ByAxis(Axes1)
        /\ LET cal == UnitsLoop([p \in {"w"} |-> [min |-> r.min, max |-> r.max, num_points |-> n]], 1,
                                [min |-> EmptyDict, max |-> EmptyDict,
                                 npoints |-> [x \in {} |-> 0], unit |-> EmptyDict, err |-> ""])
           IN  /\ min = cal.min /\ max = cal.max /\ npoints = cal.npoints /\ unit = cal.unit
               /\ err = cal.err
        /\ reduced_likelihood = NoArray
        /\ remaining_parameters = <<>>
        /\ extent = <<>>
        /\ original_p_values = <<>> /\ computed_p_values = <<>> /\ likelihood_values = <<>>
        /\ pc = "idle" /\ lv = NoLocals
        /\ contour = NoContour
        /\ call = Call("getUnitsFromOptions", "", Zero) /\ ret = <<>>
        /\ ncalls = 0

NextPixels ==
    \/ getMaximum
    \/ valueOfMaximum

SpecPixels == InitPixels /\ [][NextPixels]_vars


Next ==
    \/ getLikelihood
    \/ getUnitsFromOptions
    \/ setUnits
    \/ marginalize
    \/ slice
    \/ getLikelihoodValues

Spec == Init /\ [][Next]_vars

(***************************************************************************)
(* The search of one level on its own: the loop run to its end from the    *)
(* locals l, and the call with the single level.                           *)
(***************************************************************************)
RECURSIVE Searched(_, _)
Searched(l, a) == IF GoesOn(l) THEN Searched(Updated(l, a), a) ELSE l

Alone(a, level, epsilon, max_iterations) ==
    Searched(Seeded([NoLocals EXCEPT !.levels = <<level>>, !.epsilon = epsilon,
                                     !.max_iterations = max_iterations,
                                     !.max_likelihood = ArrayMax(a),
                                     !.step = ArrayMax(a), !.direction = 0],
                    a, 1),
             a)

(***************************************************************************)
(* Third inputs: the maximum of a reduced grid. A 2 x 2 grid whose maximum  *)
(* is at row 1, column 0, next to the grids of the first inputs.            *)
(***************************************************************************)
GridOff == IntArray(<<2, 2>>, [c \in Coords(<<2, 2>>) |-> 2 + 2 * c[1] - c[2]])

LoadsMax == Loads \cup {[grid |-> GridOff, axes |-> Axes2]}

getLikelihoodMax == getLikelihoodOf(LoadsMax)

NextMax ==
    \/ getLikelihoodMax
    \/ getUnitsFromOptions
    \/ marginalize
    \/ slice
    \/ getMaximum

SpecMax == Init /\ [][NextMax]_vars

(***************************************************************************)
(* Properties                                                              *)
(***************************************************************************)
\* The step is the call of op.
Made(op) == ncalls' = ncalls + 1 /\ call'.op = op

\* The last call was op and it returned without an exception.
Done(op) == call.op = op /\ pc = "idle" /\ err = ""

Reductions == {"marginalize", "slice"}

\* C1: marginalize, slice and getLikelihoodValues on a loaded grid of three or
\* more dimensions leave the full likelihood grid as it was.
C1_FullGridIsReadOnly ==
    [][(call'.op \in Reductions \cup {"getLikelihoodValues"} /\ NDim(likelihood) >= 3)
          => likelihood' = likelihood]_vars

\* C2: when getLikelihoodValues returns, the threshold and the confidence of
\* every level are those of the search of that level alone on the same reduced
\* likelihood, epsilon and max_iterations.
C2_LevelsSearchedIndependently ==
    pc = "return" =>
        \A i \in DOMAIN lv.levels :
            LET one == Alone(reduced_likelihood, lv.levels[i], lv.epsilon, lv.max_iterations)
            IN  /\ lv.values[i] = one.value
                /\ lv.p_values[i] = one.confidence_integral

\* C3: the search of a level makes at most max_iterations updates and raises
\* nothing; once max_iterations updates are made no further update is possible;
\* when it ends the target is met within epsilon or exactly max_iterations
\* updates were made, and the value is recorded for the level.
C3_SearchEndsWithinMaxIterations ==
    [][/\ pc' = "while" =>
            /\ lv'.iterations <= lv'.max_iterations
            /\ err' = ""
            /\ (lv'.iterations = lv'.max_iterations => ~GoesOn(lv'))
       /\ (pc = "while" /\ Len(lv'.values) # Len(lv.values)) =>
            /\ \/ ~OffTarget(lv.confidence_integral, lv.levels[lv.n], lv.epsilon)
               \/ lv.iterations = lv.max_iterations
            /\ Len(lv'.values) = lv.n
            /\ lv'.values[lv.n] = lv.value]_vars

\* A search that ended by using up a positive number of iterations.
C3_Witness ==
    /\ pc = "while"
    /\ lv.max_iterations > 0
    /\ lv.iterations = lv.max_iterations
    /\ OffTarget(lv.confidence_integral, lv.levels[lv.n], lv.epsilon)

Calibrated(name) ==
    /\ name \in DOMAIN min /\ name \in DOMAIN unit /\ name \in DOMAIN npoints
    /\ unit[name].n # 0

\* C5: slice on a grid of three or more dimensions with a value whose pixel
\* index is at least the pixel count raises the out-of-bounds error and leaves
\* the reduced likelihood, the remaining parameters and the extent as they were.
C5_SliceAboveRangeFails ==
    [][(/\ Made("slice")
        /\ "likelihood" \in attrs /\ NDim(likelihood) >= 3
        /\ Registered(call'.name) /\ Calibrated(call'.name)
        /\ SliceIndex(call'.name, call'.value) >= npoints[call'.name])
          => /\ err' = "AssertionError: Out of bounds!"
             /\ UNCHANGED <<reduction, likelihood, attrs>>]_vars

\* slice("w", 100.0) on range [-2, 0] failed, a reduced likelihood being there.
C5_Witness ==
    /\ call.op = "slice" /\ call.name = "w" /\ call.value = Q(100, 1)
    /\ err = "AssertionError: Out of bounds!"
    /\ "reduced_likelihood" \in attrs
    /\ NDim(likelihood) >= 3

\* C6: slice on a grid of three or more dimensions with a value whose pixel
\* index is outside [0, num_points - 1] raises an out-of-bounds error (the
\* assertion of slice or the index error of the list of hyperplanes) and
\* returns no hyperplane.
C6_SliceOutsideRangeFails ==
    (/\ call.op = "slice" /\ pc = "idle"
     /\ "likelihood" \in attrs /\ NDim(likelihood) >= 3
     /\ Registered(call.name) /\ Calibrated(call.name)
     /\ SliceIndex(call.name, call.value) \notin 0..(npoints[call.name] - 1))
        => err \in {"AssertionError: Out of bounds!", "IndexError"}

\* C7: marginalize and slice with a name that is not registered raise the
\* unknown-parameter error and change nothing.
C7_UnknownParameterFails ==
    [][(/\ Made("marginalize") \/ Made("slice")
        /\ "likelihood" \in attrs
        /\ call'.name \notin DOMAIN parameter_axes)
          => /\ err' = "AssertionError: parameter does not exist"
             /\ UNCHANGED <<reduction, likelihood, attrs, calibration, stored>>]_vars

\* marginalize with an unknown name failed on a loaded grid of two dimensions,
\* where the name is not used by the reduction.
C7_Witness ==
    /\ call.op = "marginalize" /\ call.name = Unknown
    /\ err = "AssertionError: parameter does not exist"
    /\ NDim(likelihood) = 2

\* C8: getLikelihoodValues on a two-dimensional reduced likelihood that does
\* not sum to 1 raises the not-normalized error before any search, and leaves
\* the stored thresholds and confidences as they were.
C8_NotNormalizedFails ==
    [][(/\ Made("getLikelihoodValues")
        /\ "reduced_likelihood" \in attrs
        /\ NDim(reduced_likelihood) = 2
        /\ ArraySum(reduced_likelihood) # One)
          => /\ err' = "AssertionError: not normalized"
             /\ pc' = "idle" /\ lv' = lv
             /\ UNCHANGED <<likelihood_values, computed_p_values>>]_vars

\* The call failed on a reduced likelihood that is not normalized, thresholds
\* of an earlier call being stored.
C8_Witness ==
    /\ call.op = "getLikelihoodValues"
    /\ err = "AssertionError: not normalized"
    /\ Len(likelihood_values) > 0
    /\ ArraySum(reduced_likelihood) # One

\* The grid has positive total weight and, for a slice of a grid of three or
\* more dimensions by the call c, so has the hyperplane it selects.
PositiveWeight(c) ==
    /\ RLess(Zero, ArraySum(likelihood))
    /\ (c.op = "slice" /\ NDim(likelihood) >= 3) =>
          RLess(Zero, SumOver(likelihood.data,
                              SectionCoords(likelihood, npoints[c.name], parameter_axes[c.name],
                                            ListIndex(SliceIndex(c.name, c.value), npoints[c.name]))))

\* C9: after a marginalize or slice call that raised nothing, on a grid (and
\* selected hyperplane) of positive weight, the reduced likelihood sums to 1.
C9_ReducedSumsToOne ==
    [][(/\ Made("marginalize") \/ Made("slice")
        /\ err' = ""
        /\ PositiveWeight(call'))
          => ArraySum(reduced_likelihood') = One]_vars

\* marginalize returned on a grid of two dimensions, which is not normalized
\* as loaded.
C9_Witness ==
    /\ Done("marginalize")
    /\ NDim(likelihood) = 2
    /\ ArraySum(likelihood) # One
    /\ ArraySum(reduced_likelihood) = One

\* C10: after a marginalize or slice call that raised nothing, the remaining
\* parameters are in ascending order of their axes.
C10_RemainingSortedByAxis ==
    (call.op \in Reductions /\ pc = "idle" /\ err = "") =>
        \A i, j \in DOMAIN remaining_parameters :
            i < j => parameter_axes[remaining_parameters[i]] < parameter_axes[remaining_parameters[j]]

\* C11: a marginalize or slice call that raises nothing and leaves two
\* remaining parameters r0, r1 sets the extent to (min[r0], max[r0], min[r1],
\* max[r1]) of the calibration, whatever the extent was before.
C11_ExtentFromCalibration ==
    [][(/\ Made("marginalize") \/ Made("slice")
        /\ err' = ""
        /\ Len(remaining_parameters') = 2)
          => LET r0 == remaining_parameters'[1]
                 r1 == remaining_parameters'[2]
             IN  extent' = <<min[r0], max[r0], min[r1], max[r1]>>]_vars

\* slice("sigma8", 3.0) returned on the grid of three dimensions: the extent is
\* that of Omega_m and w.
C11_Witness ==
    /\ Done("slice") /\ call.name = "sigma8"
    /\ NDim(likelihood) = 3
    /\ remaining_parameters = <<"Omega_m", "w">>
    /\ extent = <<Q(0, 1), Q(1, 1), Q(-2, 1), Q(0, 1)>>

\* C12: the physical value getMaximum returns for a calibrated parameter
\* (pixel * unit + min) converts back, as slice, value and point convert it,
\* to the pixel of the maximum; and value at the coordinates of the maximum
\* reads the cell of the maximum.
C12_PixelRoundTrip ==
    /\ (Done("getMaximum") /\ call.name = "full") =>
          \A p \in DOMAIN parameter_axes :
              SliceIndex(p, ret[1][p]) = FirstMax(likelihood)[parameter_axes[p] + 1]
    /\ (Done("value") /\ ret # None) => ret = <<ArrayMax(likelihood)>>

\* Every registered parameter has a minimum, a maximum and a unit.
Ranged ==
    \A p \in DOMAIN parameter_axes : p \in DOMAIN min /\ p \in DOMAIN max /\ p \in DOMAIN unit

\* C13: marginalize over a registered parameter of a loaded grid of one or two
\* dimensions that sums to 1 (every parameter being calibrated) raises
\* nothing and leaves a reduced likelihood equal to the grid.
C13_MarginalizeNormalizedIsIdentity ==
    [][(/\ Made("marginalize")
        /\ "likelihood" \in attrs /\ NDim(likelihood) <= 2
        /\ ArraySum(likelihood) = One
        /\ Registered(call'.name) /\ Ranged)
          => /\ err' = ""
             /\ reduced_likelihood' = likelihood]_vars

\* a(x,y,z) = f(x) g(y) h(z) with positive factors.
Separable(a) ==
    /\ NDim(a) = 3
    /\ \A c \in DOMAIN a.data : RLess(Zero, a.data[c])
    /\ \A c \in DOMAIN a.data :
          RMul(a.data[c], RMul(a.data[<<0, 0, 0>>], a.data[<<0, 0, 0>>]))
            = RMul(a.data[<<c[1], 0, 0>>], RMul(a.data[<<0, c[2], 0>>], a.data[<<0, 0, c[3]>>]))

\* The cell at pixel k of the axis, the other coordinates 0: the factor of
\* the axis at k, up to a constant.
Along(a, axis, k) == a.data[[i \in 1..NDim(a) |-> IF i = axis + 1 THEN k ELSE 0]]

\* The first pixel along the axis where the factor of that axis is largest.
Mode(a, axis) ==
    CHOOSE k \in 0..(a.shape[axis + 1] - 1) :
        /\ \A j \in 0..(a.shape[axis + 1] - 1) : ~RLess(Along(a, axis, k), Along(a, axis, j))
        /\ \A j \in 0..(k - 1) : RLess(Along(a, axis, j), Along(a, axis, k))

\* C14: on a separable grid of three dimensions, after marginalize over a
\* parameter and after slice of that parameter at the mode of its factor, the
\* reduced likelihood is the same array, the sum of the grid over the axis
\* normalized to 1 (f(x) g(y) normalized), and the remaining parameters are
\* the other two in the order of their axes.
C14_SliceAtModeEqualsMarginal ==
    (/\ \/ Done("marginalize")
        \/ /\ Done("slice") /\ call.name \in DOMAIN parameter_axes
           /\ NDim(likelihood) = 3
           /\ SliceIndex(call.name, call.value) = Mode(likelihood, parameter_axes[call.name])
     /\ Separable(likelihood))
        => /\ reduced_likelihood = Normalize(SumAxis(likelihood, parameter_axes[call.name]))
           /\ remaining_parameters = SortByAxis(Popped(call.name))

\* slice("sigma8", 2.0) returned on the separable grid: pixel 1, the mode.
C14_Witness ==
    /\ Done("slice") /\ call.name = "sigma8" /\ call.value = Q(2, 1)
    /\ Separable(likelihood)
    /\ SliceIndex("sigma8", call.value) = 1
    /\ Mode(likelihood, 2) = 1
    /\ NDim(reduced_likelihood) = 2

\* C16: the function called with a curve of at least quantity samples raises
\* nothing and returns quantity parameter values of distinct samples, also
\* when samples tie.
C16_LevelFinderAcceptsTies ==
    (call.op = "_1d_level_values" /\ Len(call.args[2]) >= call.args[4]) =>
        /\ err = ""
        /\ Len(ret[1]) = call.args[4]
        /\ \A i, j \in DOMAIN ret[1] : i # j => ret[1][i] # ret[1][j]

\* l is symmetric about a single mode: the mirror images have equal
\* likelihood, which falls on both sides of the middle sample.
SymmetricUnimodal(l) ==
    /\ Len(l) % 2 = 1
    /\ \A i \in DOMAIN l : l[i] = l[Len(l) + 1 - i]
    /\ \A i \in 1..(Len(l) \div 2) : RLess(l[i], l[i + 1])

\* C17: for a curve symmetric about a single mode on a regular grid, the
\* function with quantity = 2 returns two parameter values on opposite sides
\* of the mode, at the same distance from it.
C17_BracketStraddlesMode ==
    (/\ call.op = "_1d_level_values" /\ call.args[4] = 2
     /\ SymmetricUnimodal(call.args[2]))
        => /\ err = ""
           /\ LET mode == call.args[1][FirstArgMax(call.args[2])]
              IN  /\ RSub(ret[1][1], mode) = RNeg(RSub(ret[1][2], mode))
                  /\ ret[1][1] # mode

\* The coordinates of the call are one per axis, every parameter has its unit
\* and minimum, and some coordinate is at a pixel outside [0, num_points - 1].
OutsideGrid ==
    /\ "likelihood" \in attrs
    /\ Len(call.args) = NDim(likelihood)
    /\ ValueError(call.args) = ""
    /\ \E i \in 1..Len(call.args) : Pix(call.args)[i] \notin 0..(likelihood.shape[i] - 1)

\* C18: value at coordinates of which one is at a pixel outside the grid
\* raises nothing and returns None.
C18_ValueOutsideGridIsNone ==
    (call.op = "value" /\ pc = "idle" /\ OutsideGrid) => (err = "" /\ ret = None)

\* C19: what plotContours has drawn are thresholds of the current reduced
\* likelihood: the confidence drawn with each threshold is the sum of the
\* cells of the reduced likelihood above it.
C19_DrawnThresholdsAreCurrent ==
    Done("plotContours") =>
        /\ contour.likelihood = reduced_likelihood
        /\ \A i \in DOMAIN contour.values :
              contour.p_values[i] = Confidence(reduced_likelihood, contour.values[i])

\* C20: every registered parameter with a recorded pixel count has the length
\* of the grid along its axis as the count.
C20_CountsMatchGrid ==
    (pc = "idle" /\ "likelihood" \in attrs) =>
        \A p \in (DOMAIN npoints) \cap (DOMAIN parameter_axes) :
            /\ parameter_axes[p] < NDim(likelihood)
            /\ npoints[p] = likelihood.shape[parameter_axes[p] + 1]
\* C15: on a calibrated, normalized two-dimensional grid with a single mode at
\* its centre, on which the search of each level alone ends within epsilon of the level,
\* getLikelihoodValues([0.5, 0.9]) returns threshold(0.9) < threshold(0.5) and
\* each achieved confidence is within relative epsilon of its level.
Unimodal(a) ==
    LET centre == [k \in 1..NDim(a) |-> (a.shape[k] - 1) \div 2]
        Closer(c, k) == [c EXCEPT ![k] = IF c[k] < centre[k] THEN c[k] + 1 ELSE c[k] - 1]
    IN  \A c \in DOMAIN a.data :
            c # centre =>
                /\ RLess(a.data[c], a.data[centre])
                /\ \A k \in 1..NDim(a) :
                       c[k] # centre[k] => ~RLess(a.data[Closer(c, k)], a.data[c])

FoundAlone(a, level, epsilon, max_iterations) ==
    ~OffTarget(Alone(a, level, epsilon, max_iterations).confidence_integral, level, epsilon)

C15_ThresholdsOrderedAndWithinEpsilon ==
    (/\ Done("getLikelihoodValues")
     /\ call.levels = <<Q(1, 2), Q(9, 10)>>
     /\ Ranged
     /\ NDim(reduced_likelihood) = 2
     /\ Unimodal(reduced_likelihood)
     /\ \A i \in 1..2 : FoundAlone(reduced_likelihood, call.levels[i], call.epsilon,
                                     call.max_iterations))
    => /\ Len(likelihood_values) = 2
       /\ RLess(likelihood_values[2], likelihood_values[1])
       /\ \A i \in 1..2 : ~OffTarget(computed_p_values[i], call.levels[i], call.epsilon)
\* C21: every parameter that has a calibration (a minimum, a maximum and a
\* unit) has a recorded pixel count, and its unit is (max - min)/(num_points - 1).
C21_CalibratedHasCountAndUnit ==
    \A p \in (DOMAIN min) \cap (DOMAIN max) \cap (DOMAIN unit) :
        /\ p \in DOMAIN npoints
        /\ npoints[p] > 1
        /\ LET expected == FDiv(FSub(max[p], min[p]), Q(npoints[p] - 1, 1))
           IN  ~RLess(unit[p], expected) /\ ~RLess(expected, unit[p])
\* The distance in likelihood of sample i of the call to the sample whose
\* cumulative level is closest to the level asked for: the first sample that
\* minimizes |cumulative - level|, cumulative being the mass fraction of the
\* samples at least as likely.
LikelihoodDistance(i) ==
    LET l == call.args[2]
        total == SumOver(l, DOMAIN l)
        miss(n) == RAbs(RSub(RDiv(SumOver(l, {m \in DOMAIN l : ~RLess(l[m], l[n])}), total),
                             call.args[3]))
        closest == CHOOSE n \in DOMAIN l :
                      /\ \A m \in DOMAIN l : ~RLess(miss(m), miss(n))
                      /\ \A m \in DOMAIN l : m < n => RLess(miss(n), miss(m))
    IN  RAbs(RSub(l[i], l[closest]))

DistancesDistinct ==
    \A i, j \in DOMAIN call.args[2] :
        i # j => (RLess(LikelihoodDistance(i), LikelihoodDistance(j))
                    \/ RLess(LikelihoodDistance(j), LikelihoodDistance(i)))

\* C23: when the distances in likelihood to the closest sample are pairwise
\* distinct, the function returns exactly the parameter values of the
\* quantity samples of smallest distance, in ascending order of their distance
\* to the parameter value of the first sample of maximum likelihood.
C23_NearestSamplesByClosenessToMode ==
    (/\ call.op = "_1d_level_values"
     /\ call.args[4] <= Len(call.args[2])
     /\ DistancesDistinct)
        => LET p == call.args[1]
               l == call.args[2]
               k == call.args[4]
               nearest == {i \in DOMAIN l :
                             Cardinality({j \in DOMAIN l :
                                RLess(LikelihoodDistance(j), LikelihoodDistance(i))}) < k}
               mode == CHOOSE i \in DOMAIN l :
                          /\ \A j \in DOMAIN l : ~RLess(l[i], l[j])
                          /\ \A j \in DOMAIN l : j < i => RLess(l[j], l[i])
               far(x) == RAbs(RSub(x, p[mode]))
           IN  /\ err = ""
               /\ Len(ret[1]) = k
               /\ {ret[1][n] : n \in 1..k} = {p[i] : i \in nearest}
               /\ \A n \in 1..(k - 1) : ~RLess(far(ret[1][n + 1]), far(ret[1][n]))

\* A call with three values asked for and returned, in an order that is not
\* the order of their distances in likelihood.
C23_Witness ==
    /\ call.op = "_1d_level_values" /\ err = ""
    /\ call.args[4] = 3
    /\ DistancesDistinct
    /\ \E i, j \in DOMAIN call.args[2] :
          /\ ret[1][2] = call.args[1][i]
          /\ ret[1][3] = call.args[1][j]
          /\ RLess(LikelihoodDistance(j), LikelihoodDistance(i))
\* The step is an update of the search of a level.
Updates == pc = "while" /\ pc' = "while" /\ lv'.n = lv.n /\ lv'.iterations = lv.iterations + 1

\* The update reverses the direction of the search.
Reverses == lv.direction # 0 /\ lv'.direction # lv.direction

\* The value moves by the new step, up when the confidence is above the level
\* and down otherwise, and the step is unchanged without a reversal.
MovesByStep ==
    /\ ~Reverses => lv'.step = lv.step
    /\ IF RLess(lv.levels[lv.n], lv.confidence_integral)
         THEN lv'.value = RAdd(lv.value, lv'.step) /\ lv'.direction = 1
         ELSE lv'.value = RSub(lv.value, lv'.step) /\ lv'.direction = -1

\* C22 as stated: at each reversal of the direction the step is halved before
\* the value moves; without a reversal it is unchanged; the value moves by
\* +step when the confidence is above the level and by -step otherwise.
C22_StepHalvedOnReversal ==
    [][Updates => /\ MovesByStep
                  /\ Reverses => RMul(lv'.step, Q(2, 1)) = lv.step]_vars

\* C22: at each reversal of the direction the step is divided by ten before
\* the value moves; without a reversal it is unchanged; the value moves by
\* +step when the confidence is above the level and by -step otherwise.
C22_StepDividedByTenOnReversal ==
    [][Updates => /\ MovesByStep
                  /\ Reverses => RMul(lv'.step, Q(10, 1)) = lv.step]_vars

\* A search that has reversed once: its step is a tenth of the initial one.
C22_Witness ==
    /\ pc = "while"
    /\ lv.iterations > 1
    /\ lv.direction # 0
    /\ RMul(lv.step, Q(10, 1)) = lv.max_likelihood
\* The pixels of the sliced parameter whose physical coordinate is nearest to
\* the value of the call.
NearestPixels ==
    LET name == call.name
        away(k) == RAbs(RSub(call.value, RAdd(min[name], RMul(Q(k, 1), unit[name]))))
    IN  {k \in 0..(npoints[name] - 1) :
            \A m \in 0..(npoints[name] - 1) : ~RLess(away(m), away(k))}

\* C24: slice(name, value) of a grid of three dimensions with a value within
\* [min, max] leaves as reduced likelihood the normalized hyperplane of the
\* pixel nearest to value, also for a value between two grid points.
C24_SliceSelectsNearestPixel ==
    (/\ Done("slice")
     /\ NDim(likelihood) >= 3
     /\ ~RLess(call.value, min[call.name])
     /\ ~RLess(max[call.name], call.value))
    => \E k \in NearestPixels :
          reduced_likelihood =
            Normalize(Squeeze(Section(likelihood, npoints[call.name],
                                      parameter_axes[call.name], k)))
\* The axis of the reduced array that belongs to the remaining parameter p:
\* the number of remaining parameters of smaller axis in the full grid.
ReducedAxis(p) ==
    Cardinality({i \in DOMAIN remaining_parameters :
                    parameter_axes[remaining_parameters[i]] < parameter_axes[p]})

\* C25: getMaximum("reduced") called after a marginalize or slice that raised
\* nothing, the reduced likelihood having a maximal cell, raises nothing and
\* maps each remaining parameter to index*unit + min, index being the
\* coordinate of the first maximal cell along the axis of the reduced array
\* that belongs to the parameter.
C25_ReducedMaximumByParameterAxis ==
    [][(/\ call.op \in {"marginalize", "slice"} /\ err = ""
        /\ WhereMax(reduced_likelihood) # {}
        /\ Made("getMaximum") /\ call'.name = "reduced")
       => /\ err' = ""
          /\ DOMAIN ret'[1] = {remaining_parameters[i] : i \in DOMAIN remaining_parameters}
          /\ \A q \in DOMAIN ret'[1] :
                ret'[1][q] = PhysicalOf(q, FirstMax(reduced_likelihood)[ReducedAxis(q) + 1])]_vars
====
